---- MODULE Spec2Model ----
(***************************************************************************)
(* Model of the three tools of src/tools:                                  *)
(*   website_mapper.cpp  fetch one URL with libcurl, then scan the body    *)
(*                       with two std::regex patterns and print the hits   *)
(*   cli_runner.cpp      join argv into a command and std::system it       *)
(*   cli_bridge.cpp      join argv into a command, popen it, echo output   *)
(* Text is modelled as TLA+ strings, character by character.               *)
(***************************************************************************)
EXTENDS Integers, Sequences, FiniteSets, TLC

VARIABLES prog, argc, pc, curlInits, curlPerforms, cbSize, cbNmemb, cbRet,
          delivered, html, res, searchStart, searches, links, buttons,
          subprocs, child, out, err, exitStatus

vars == <<prog, argc, pc, curlInits, curlPerforms, cbSize, cbNmemb, cbRet,
          delivered, html, res, searchStart, searches, links, buttons,
          subprocs, child, out, err, exitStatus>>

(* ------------------------------ bounds --------------------------------- *)
\* largest argc the environment passes
MaxArgc == 2
\* most chunks the transport delivers during one curl_easy_perform
MaxChunks == 3

(* ------------------------- character helpers --------------------------- *)
Ch(s, i) == IF i >= 1 /\ i <= Len(s) THEN SubSeq(s, i, i) ELSE ""

Sub(s, i, j) == IF i > j THEN "" ELSE SubSeq(s, i, j)

UpperLetters == "ABCDEFGHIJKLMNOPQRSTUVWXYZ"
LowerLetters == "abcdefghijklmnopqrstuvwxyz"

\* std::regex::icase folds both pattern and subject through tolower
ToLower ==
    [c \in {Ch(UpperLetters, j) : j \in 1..26} |->
        Ch(LowerLetters, CHOOSE j \in 1..26 : Ch(UpperLetters, j) = c)]

LowerCh(c) == IF c \in DOMAIN ToLower THEN ToLower[c] ELSE c

\* the literal lit (given in lower case) occurs at position p of s, ignoring case
LitAtIC(s, p, lit) ==
    /\ p >= 1
    /\ p + Len(lit) - 1 <= Len(s)
    /\ \A j \in 1..Len(lit) : LowerCh(Ch(s, p + j - 1)) = Ch(lit, j)

SetMax(S) == CHOOSE x \in S : \A y \in S : y <= x
SetMin(S) == CHOOSE x \in S : \A y \in S : x <= y

\* length of the longest run starting at p of characters outside the set stop
RECURSIVE RunLen(_, _, _)
RunLen(s, p, stop) ==
    IF p > Len(s) \/ Ch(s, p) \in stop THEN 0 ELSE 1 + RunLen(s, p + 1, stop)

NoMatch == [ok |-> FALSE, cap |-> "", end |-> 0]

(* --------- linkRegex  <a[^>]*href=["']([^"']+)["']  with icase --------- *)
Quotes == {"\"", "'"}

\* href=["']([^"']+)["'] matched at p: the greedy [^"']+ takes the longest
\* run that is still followed by a quote character
HrefLens(s, p) ==
    IF LitAtIC(s, p, "href=") /\ Ch(s, p + 5) \in Quotes
    THEN {r \in 1..RunLen(s, p + 6, Quotes) : Ch(s, p + 6 + r) \in Quotes}
    ELSE {}

\* lengths k of the greedy [^>]* after which the rest of the pattern matches
LinkSkips(s, i) ==
    IF Ch(s, i) = "<" /\ LowerCh(Ch(s, i + 1)) = "a"
    THEN {k \in 0..RunLen(s, i + 2, {">"}) : HrefLens(s, i + 2 + k) # {}}
    ELSE {}

\* the match the backtracking matcher reports when started at position i
LinkMatchAt(s, i) ==
    IF LinkSkips(s, i) = {} THEN NoMatch
    ELSE LET k == SetMax(LinkSkips(s, i))
             p == i + 2 + k
             r == SetMax(HrefLens(s, p))
         IN  [ok |-> TRUE, cap |-> Sub(s, p + 6, p + 5 + r), end |-> p + 7 + r]

\* std::regex_search(from, html.cend(), match, linkRegex): leftmost match
LinkSearch(s, from) ==
    LET starts == {i \in from..Len(s) : LinkSkips(s, i) # {}}
    IN  IF starts = {} THEN NoMatch ELSE LinkMatchAt(s, SetMin(starts))

(* --------- buttonRegex  <button[^>]*>(.*?)</button>  with icase -------- *)
\* ECMAScript '.' matches every character except the line terminators
LineTerminators == {"\n", "\r"}

DotMatches(c) == c \notin LineTerminators

\* lengths t of the lazy .*? after which </button> follows
ButtonTextLens(s, q) ==
    {t \in 0..(Len(s) + 1 - q) :
        /\ \A j \in 0..(t - 1) : DotMatches(Ch(s, q + j))
        /\ LitAtIC(s, q + t, "</button>")}

\* lengths k of the greedy [^>]* after which >(.*?)</button> matches
ButtonSkips(s, i) ==
    IF Ch(s, i) = "<" /\ LitAtIC(s, i + 1, "button")
    THEN {k \in 0..RunLen(s, i + 7, {">"}) :
            Ch(s, i + 7 + k) = ">" /\ ButtonTextLens(s, i + 8 + k) # {}}
    ELSE {}

ButtonMatchAt(s, i) ==
    IF ButtonSkips(s, i) = {} THEN NoMatch
    ELSE LET k == SetMax(ButtonSkips(s, i))
             q == i + 8 + k
             t == SetMin(ButtonTextLens(s, q))
         IN  [ok |-> TRUE, cap |-> Sub(s, q, q + t - 1), end |-> q + t + 9]

\* std::regex_search(from, html.cend(), match, buttonRegex): leftmost match
ButtonSearch(s, from) ==
    LET starts == {i \in from..Len(s) : ButtonSkips(s, i) # {}}
    IN  IF starts = {} THEN NoMatch ELSE ButtonMatchAt(s, SetMin(starts))

(* ------------------------- the environment ----------------------------- *)
Programs == {"website_mapper", "cli_runner", "cli_bridge"}

\* pieces of a response body as the transport hands them to the write callback
Chunks == { "<a href=\"x\">",
            "<A HR",
            "EF='y'>",
            "<area href=\"m\">",
            "<a href=\"it's\">",
            "<button>",
            "Go\nNow</button>",
            "<BUTTON id=\"b\">Go</BUTTON>" }

\* results of curl_easy_perform; the first two failures happen before any
\* byte of the body arrives, the other two in the middle of a transfer
ConnectErrors == {"CURLE_COULDNT_RESOLVE_HOST", "CURLE_COULDNT_CONNECT"}
TransferErrors == {"CURLE_OPERATION_TIMEDOUT", "CURLE_RECV_ERROR"}
CurlCodes == {"CURLE_OK"} \cup ConnectErrors \cup TransferErrors

\* curl_easy_strerror
StrError(code) ==
    CASE code = "CURLE_OK" -> "No error"
      [] code = "CURLE_COULDNT_RESOLVE_HOST" -> "Couldn't resolve host name"
      [] code = "CURLE_COULDNT_CONNECT" -> "Couldn't connect to server"
      [] code = "CURLE_OPERATION_TIMEDOUT" -> "Timeout was reached"
      [] code = "CURLE_RECV_ERROR" -> "Failure when receiving data from the peer"

\* exit codes of the subprocess, signals that may kill it, what it prints
ChildExitCodes == {0, 1, 2, 127, 255}
ChildSignals == {9, 15}
ChildOutputs == {"", "ok\n"}

\* the value main returns, as the parent of the process observes it
ExitStatus(r) == r % 256

(* ------------------------------ Init ----------------------------------- *)
Init ==
    /\ prog \in Programs
    /\ argc \in 1..MaxArgc
    /\ pc = "start"
    /\ curlInits = 0
    /\ curlPerforms = 0
    /\ cbSize = 0
    /\ cbNmemb = 0
    /\ cbRet = 0
    /\ delivered = <<>>
    /\ html = ""
    /\ res = "none"
    /\ searchStart = 0
    /\ searches = 0
    /\ links = <<>>
    /\ buttons = <<>>
    /\ subprocs = 0
    /\ child = [how |-> "none", code |-> 0]
    /\ out = <<>>
    /\ err = <<>>
    /\ exitStatus = 0

\* the test written as argc < 1
MissingArgumentOffByOne(n) == n < 1

\* if (argc < 2)
MissingArgument(n) == n < 2

\* return from main with value r
Return(r) ==
    /\ exitStatus' = ExitStatus(r)
    /\ pc' = "done"

(* --------------------------- website_mapper ---------------------------- *)
mapperFrame == <<prog, argc, subprocs, child>>

\* lines 16-19: no URL
MapperUsage ==
    /\ prog = "website_mapper" /\ pc = "start"
    /\ MissingArgument(argc)
    /\ err' = Append(err, "Usage: website_mapper <url>\n")
    /\ Return(1)
    /\ UNCHANGED <<mapperFrame, curlInits, curlPerforms, cbSize, cbNmemb, cbRet,
                   delivered, html, res, searchStart, searches, links,
                   buttons, out>>

\* lines 21-26: curl_easy_init gives a handle or NULL
CurlEasyInit ==
    /\ prog = "website_mapper" /\ pc = "start"
    /\ ~MissingArgument(argc)
    /\ curlInits' = curlInits + 1
    /\ \E handle \in BOOLEAN :
         IF handle
         THEN /\ pc' = "setup"
              /\ UNCHANGED <<err, exitStatus>>
         ELSE /\ err' = Append(err, "Failed to initialize libcurl\n")
              /\ Return(1)
    /\ UNCHANGED <<mapperFrame, curlPerforms, cbSize, cbNmemb, cbRet,
                   delivered, html, res, searchStart, searches, links,
                   buttons, out>>

\* lines 28-33: empty buffer, options set, curl_easy_perform entered
CurlEasyPerform ==
    /\ prog = "website_mapper" /\ pc = "setup"
    /\ html' = ""
    /\ curlPerforms' = curlPerforms + 1
    /\ pc' = "perform"
    /\ UNCHANGED <<mapperFrame, curlInits, cbSize, cbNmemb, cbRet, delivered,
                   res, searchStart, searches, links, buttons, out, err,
                   exitStatus>>

\* the callback with assign in place of append
WriteCallbackAssign(buffer, contents, size, nmemb) ==
    LET totalSize == size * nmemb
    IN  [buffer |-> Sub(contents, 1, totalSize), ret |-> totalSize]

\* lines 8-13: the buffer after the call and the value returned
WriteCallback(buffer, contents, size, nmemb) ==
    LET totalSize == size * nmemb
    IN  [buffer |-> buffer \o Sub(contents, 1, totalSize), ret |-> totalSize]

\* the transport hands one more chunk to the callback (size is 1 in libcurl)
Deliver ==
    /\ prog = "website_mapper" /\ pc = "perform"
    /\ Len(delivered) < MaxChunks
    /\ \E c \in Chunks :
         LET r == WriteCallback(html, c, 1, Len(c))
         IN  /\ delivered' = Append(delivered, c)
             /\ cbSize' = 1
             /\ cbNmemb' = Len(c)
             /\ html' = r.buffer
             /\ cbRet' = r.ret
    /\ UNCHANGED <<mapperFrame, pc, curlInits, curlPerforms, res, searchStart,
                   searches, links, buttons, out, err, exitStatus>>

\* the test taking only a failure to connect for a failure
PerformFailedConnectOnly(code) == code \in ConnectErrors

\* if (res != CURLE_OK)
PerformFailed(code) == code # "CURLE_OK"

\* html.cbegin()
CBegin == 1

\* lines 33-48: curl_easy_perform returns
PerformReturn ==
    /\ prog = "website_mapper" /\ pc = "perform"
    /\ \E code \in CurlCodes :
         /\ code \in ConnectErrors => delivered = <<>>
         /\ res' = code
         /\ IF PerformFailed(code)
            THEN /\ err' = Append(err, "curl_easy_perform() failed: "
                                        \o StrError(code) \o "\n")
                 /\ Return(1)
                 /\ UNCHANGED <<links, buttons, searchStart>>
            ELSE /\ links' = <<>>
                 /\ buttons' = <<>>
                 /\ searchStart' = CBegin
                 /\ pc' = "linkscan"
                 /\ UNCHANGED <<err, exitStatus>>
    /\ UNCHANGED <<mapperFrame, curlInits, curlPerforms, cbSize, cbNmemb, cbRet,
                   delivered, html, searches, out>>

\* line 54 left out
ButtonScanStartKeep(cur) == cur

\* line 54: where the button scan starts, cur being where the link scan stopped
ButtonScanStart(cur) == CBegin

\* lines 49-54: one test of the link loop; leaving it resets searchStart
LinkLoop ==
    /\ prog = "website_mapper" /\ pc = "linkscan"
    /\ searches' = searches + 1
    /\ LET match == LinkSearch(html, searchStart)
       IN  IF match.ok
           THEN /\ links' = Append(links, match.cap)
                /\ searchStart' = match.end
                /\ pc' = pc
           ELSE /\ searchStart' = ButtonScanStart(searchStart)
                /\ pc' = "buttonscan"
                /\ links' = links
    /\ UNCHANGED <<mapperFrame, curlInits, curlPerforms, cbSize, cbNmemb, cbRet,
                   delivered, html, res, buttons, out, err, exitStatus>>

\* lines 55-58: one test of the button loop
ButtonLoop ==
    /\ prog = "website_mapper" /\ pc = "buttonscan"
    /\ searches' = searches + 1
    /\ LET match == ButtonSearch(html, searchStart)
       IN  IF match.ok
           THEN /\ buttons' = Append(buttons, match.cap)
                /\ searchStart' = match.end
                /\ pc' = pc
           ELSE /\ pc' = "print"
                /\ UNCHANGED <<buttons, searchStart>>
    /\ UNCHANGED <<mapperFrame, curlInits, curlPerforms, cbSize, cbNmemb, cbRet,
                   delivered, html, res, links, out, err, exitStatus>>

\* " - " << item << std::endl for every item
ItemLines(items) == [k \in 1..Len(items) |-> " - " \o items[k] \o "\n"]

\* the two sections written in the other order
RenderButtonsFirst(ls, bs) ==
    <<"\nButtons found:\n">> \o ItemLines(bs)
        \o <<"Links found:\n">> \o ItemLines(ls)

\* lines 60-68: what is written to std::cout
Render(ls, bs) ==
    <<"Links found:\n">> \o ItemLines(ls)
        \o <<"\nButtons found:\n">> \o ItemLines(bs)

\* lines 60-70
Emit ==
    /\ prog = "website_mapper" /\ pc = "print"
    /\ out' = out \o Render(links, buttons)
    /\ Return(0)
    /\ UNCHANGED <<mapperFrame, curlInits, curlPerforms, cbSize, cbNmemb, cbRet,
                   delivered, html, res, searchStart, searches, links,
                   buttons, err>>

(* ------------------------------ invokers ------------------------------- *)
invokerFrame == <<prog, argc, curlInits, curlPerforms, cbSize, cbNmemb, cbRet,
                  delivered, html, res, searchStart, searches, links, buttons>>

\* the value std::system returns for what happened to the child
SystemResult(c) ==
    CASE c.how = "nostart" -> 0 - 1
      [] c.how = "exited" -> c.code * 256
      [] c.how = "signaled" -> c.code

ChildFates ==
    {[how |-> "nostart", code |-> 0]}
        \cup {[how |-> "exited", code |-> e] : e \in ChildExitCodes}
        \cup {[how |-> "signaled", code |-> g] : g \in ChildSignals}

\* cli_runner.cpp lines 6-9
RunnerNoCommand ==
    /\ prog = "cli_runner" /\ pc = "start"
    /\ MissingArgument(argc)
    /\ err' = Append(err, "No command provided\n")
    /\ Return(1)
    /\ UNCHANGED <<invokerFrame, subprocs, child, out>>

\* cli_runner.cpp lines 10-19
RunnerSystem ==
    /\ prog = "cli_runner" /\ pc = "start"
    /\ ~MissingArgument(argc)
    /\ subprocs' = subprocs + 1
    /\ \E c \in ChildFates :
         LET result == SystemResult(c)
         IN  /\ child' = c
             /\ err' = IF result # 0
                       THEN Append(err, "Command failed with code "
                                         \o ToString(result) \o "\n")
                       ELSE err
             /\ Return(result)
    /\ UNCHANGED <<invokerFrame, out>>

\* cli_bridge.cpp lines 8-11
BridgeUsage ==
    /\ prog = "cli_bridge" /\ pc = "start"
    /\ MissingArgument(argc)
    /\ err' = Append(err, "Usage: cli_bridge <args>\n")
    /\ Return(1)
    /\ UNCHANGED <<invokerFrame, subprocs, child, out>>

\* cli_bridge.cpp lines 12-28: popen gives NULL, or the child runs, its
\* output is read to the end and echoed, and pclose's value is dropped
BridgePopen ==
    /\ prog = "cli_bridge" /\ pc = "start"
    /\ ~MissingArgument(argc)
    /\ subprocs' = subprocs + 1
    /\ \E c \in ChildFates :
         /\ child' = c
         /\ IF c.how = "nostart"
            THEN /\ err' = Append(err, "Failed to run command\n")
                 /\ Return(1)
                 /\ out' = out
            ELSE /\ \E result \in ChildOutputs : out' = Append(out, result)
                 /\ Return(0)
                 /\ err' = err
    /\ UNCHANGED invokerFrame

Next ==
    \/ MapperUsage
    \/ CurlEasyInit
    \/ CurlEasyPerform
    \/ Deliver
    \/ PerformReturn
    \/ LinkLoop
    \/ ButtonLoop
    \/ Emit
    \/ RunnerNoCommand
    \/ RunnerSystem
    \/ BridgeUsage
    \/ BridgePopen

Spec == Init /\ [][Next]_vars

(* ===================== what the claims talk about ====================== *)
Last(q) == q[Len(q)]

RECURSIVE Concat(_)
Concat(q) == IF q = <<>> THEN "" ELSE q[1] \o Concat(Tail(q))

\* every match of the link loop when it sweeps s from position from
RECURSIVE AllLinks(_, _)
AllLinks(s, from) ==
    LET m == LinkSearch(s, from)
    IN  IF m.ok THEN <<m.cap>> \o AllLinks(s, m.end) ELSE <<>>

\* every match of the button loop when it sweeps s from position from
RECURSIVE AllButtons(_, _)
AllButtons(s, from) ==
    LET m == ButtonSearch(s, from)
    IN  IF m.ok THEN <<m.cap>> \o AllButtons(s, m.end) ELSE <<>>

(* ---- markup as the specification reads it: tags, anchors, buttons ----- *)
Digits == "0123456789"
Whitespace == {" ", "\t", "\n", "\r"}

NameChars ==
    {Ch(LowerLetters, j) : j \in 1..26} \cup {Ch(Digits, j) : j \in 1..10}

IsNameChar(c) == LowerCh(c) \in NameChars

\* positions of a character at or after position p
Positions(s, p, c) == {j \in p..Len(s) : Ch(s, j) = c}

\* an opening tag named name starts at i and is closed by a later >
IsOpenTag(s, i, name) ==
    /\ LitAtIC(s, i, "<" \o name)
    /\ ~IsNameChar(Ch(s, i + 1 + Len(name)))
    /\ Positions(s, i, ">") # {}

TagClose(s, i) == SetMin(Positions(s, i, ">"))

\* where a quoted href attribute of the tag at i starts
HrefAttrs(s, i) ==
    {p \in (i + 2)..TagClose(s, i) :
        /\ Ch(s, p - 1) \in Whitespace
        /\ LitAtIC(s, p, "href=")
        /\ Ch(s, p + 5) \in Quotes
        /\ \E e \in (p + 6)..(TagClose(s, i) - 1) : Ch(s, e) = Ch(s, p + 5)}

\* the text between the opening quote and the matching closing quote
HrefValue(s, i) ==
    LET p == SetMin(HrefAttrs(s, i))
        e == SetMin(Positions(s, p + 6, Ch(s, p + 5)))
    IN  Sub(s, p + 6, e - 1)

AnchorTags(s) == {i \in 1..Len(s) : IsOpenTag(s, i, "a")}

AnchorsWithHref(s) == {i \in AnchorTags(s) : HrefAttrs(s, i) # {}}

\* the elements of a set of positions, in document order
RECURSIVE InOrder(_)
InOrder(S) ==
    IF S = {} THEN <<>> ELSE <<SetMin(S)>> \o InOrder(S \ {SetMin(S)})

AnchorHrefs(s) ==
    LET at == InOrder(AnchorsWithHref(s))
    IN  [k \in 1..Len(at) |-> HrefValue(s, at[k])]

Distinct(q) == \A j, k \in 1..Len(q) : j # k => q[j] # q[k]

\* angle brackets pair up: < > < > ...
WellFormed(s) ==
    /\ \A i \in Positions(s, 1, "<") :
         /\ Positions(s, i, ">") # {}
         /\ Positions(s, i + 1, "<") \cap (i + 1)..TagClose(s, i) = {}
    /\ \A j \in Positions(s, 1, ">") :
         \E i \in Positions(s, 1, "<") : i < j /\ TagClose(s, i) = j

\* where </button> occurs at or after position p
ButtonCloses(s, p) == {e \in p..Len(s) : LitAtIC(s, e, "</button>")}

\* button openers at or after from that have a closing tag after them
ButtonPairs(s, from) ==
    {i \in from..Len(s) :
        IsOpenTag(s, i, "button") /\ ButtonCloses(s, TagClose(s, i) + 1) # {}}

\* left to right, non-overlapping: the text from the end of each opening tag
\* to the nearest closing tag after it
RECURSIVE ButtonTexts(_, _)
ButtonTexts(s, from) ==
    IF ButtonPairs(s, from) = {} THEN <<>>
    ELSE LET i == SetMin(ButtonPairs(s, from))
             q == TagClose(s, i) + 1
             e == SetMin(ButtonCloses(s, q))
         IN  <<Sub(s, q, e - 1)>> \o ButtonTexts(s, e + 9)

Fetched == prog = "website_mapper" /\ res = "CURLE_OK"
Extracted == Fetched /\ pc \in {"print", "done"}

(* ============================== claims ================================= *)

\* C1: once curl_easy_perform has failed, website_mapper has exited with a
\* non-zero status, its diagnostic carries curl_easy_strerror's text, no
\* regex search was ever started and nothing was written to std::cout,
\* whatever had been buffered.
C1_FetchFailureIsTerminal ==
    (prog = "website_mapper" /\ res \notin {"none", "CURLE_OK"}) =>
        /\ pc = "done"
        /\ exitStatus # 0
        /\ \E k \in 1..Len(err) :
             err[k] = "curl_easy_perform() failed: " \o StrError(res) \o "\n"
        /\ searches = 0
        /\ links = <<>> /\ buttons = <<>>
        /\ out = <<>>

C1_Witness ==
    /\ prog = "website_mapper" /\ pc = "done"
    /\ res = "CURLE_RECV_ERROR"
    /\ Len(delivered) >= 2 /\ html # ""
    /\ exitStatus = 1

\* C2: with argc < 2 each of the three programs writes its error message and
\* exits non-zero straight from the start, and libcurl is never initialised
\* or performed and no subprocess is started.
C2_MissingArgumentDoesNothing ==
    argc < 2 =>
        /\ pc \in {"start", "done"}
        /\ curlInits = 0 /\ curlPerforms = 0 /\ delivered = <<>>
        /\ subprocs = 0 /\ child.how = "none"
        /\ pc = "done" => (Len(err) = 1 /\ exitStatus # 0)

C2_Witness ==
    /\ argc < 2 /\ pc = "done" /\ prog = "cli_bridge"
    /\ err = <<"Usage: cli_bridge <args>\n">> /\ exitStatus = 1

\* C3: when the anchor tags of the body carry pairwise distinct href values,
\* Links has one entry per anchor tag and lists those values in document
\* order.
C3_LinksAreTheAnchorHrefs ==
    (Extracted /\ Distinct(AnchorHrefs(html))) => links = AnchorHrefs(html)

\* C4: a well-formed body without any anchor tag gives an empty Links
\* sequence, whatever other elements (area, abbr, article, ...) it holds.
C4_NoAnchorNoLinks ==
    (Extracted /\ WellFormed(html) /\ AnchorTags(html) = {}) => links = <<>>

\* C5: the quoted href value of every anchor tag, taken verbatim from its
\* opening quote to the matching closing quote, is an entry of Links.
C5_HrefCapturedVerbatim ==
    Extracted =>
        \A i \in AnchorsWithHref(html) :
            \E k \in 1..Len(links) : links[k] = HrefValue(html, i)

\* C6: ButtonLabels lists, for the button pairs met left to right without
\* overlap, the text between the opening tag and the nearest closing tag,
\* as it stands (nested markup, whitespace and line breaks included).
C6_ButtonTextCapturedAsIs ==
    Extracted => buttons = ButtonTexts(html, 1)

\* C7: after a successful fetch nothing is written to std::cout before the
\* end, and website_mapper then exits with status 0 having written the
\* header "Links found:", one " - <link>" line per link in order, a blank
\* line with the header "Buttons found:", one " - <label>" line per button
\* in order.
C7_SuccessOutput ==
    Fetched =>
        IF pc = "done"
        THEN /\ exitStatus = 0
             /\ Len(out) = Len(links) + Len(buttons) + 2
             /\ out[1] = "Links found:\n"
             /\ \A k \in 1..Len(links) : out[1 + k] = " - " \o links[k] \o "\n"
             /\ out[Len(links) + 2] = "\nButtons found:\n"
             /\ \A k \in 1..Len(buttons) :
                  out[Len(links) + 2 + k] = " - " \o buttons[k] \o "\n"
        ELSE out = <<>>

C7_Witness ==
    /\ Fetched /\ pc = "done" /\ exitStatus = 0
    /\ links = <<"x">> /\ buttons = <<"Go">>
    /\ out = <<"Links found:\n", " - x\n", "\nButtons found:\n", " - Go\n">>

\* C8: when the subprocess could not be started or exited with a non-zero
\* code, the exit status of cli_runner and of cli_bridge is non-zero.
C8_InvokersPropagateFailure ==
    (/\ prog \in {"cli_runner", "cli_bridge"}
     /\ pc = "done"
     /\ \/ child.how = "nostart"
        \/ child.how = "exited" /\ child.code # 0)
        => exitStatus # 0

\* C9: the button scan starts at the first character of the body wherever the
\* link scan stopped, so that at the end ButtonLabels is the button rule's
\* sweep of the whole body and Links the link rule's sweep of the whole body,
\* neither changed by the other scan.
C9_ScansAreIndependent ==
    /\ (Fetched /\ pc = "buttonscan" /\ buttons = <<>>) => searchStart = 1
    /\ (Fetched /\ pc = "done") =>
            /\ buttons = AllButtons(html, 1)
            /\ links = AllLinks(html, 1)

C9_Witness ==
    /\ Extracted /\ pc = "done"
    /\ html = "<button><a href=\"x\"><BUTTON id=\"b\">Go</BUTTON>"
    /\ links = <<"x">> /\ buttons = <<"<a href=\"x\"><BUTTON id=\"b\">Go">>

\* C10: every call of WriteCallback appends exactly size*nmemb bytes, the
\* chunk just delivered, and returns that count; the body the first regex
\* search sees is the concatenation of the delivered chunks in arrival
\* order; once a search has started nothing more is delivered or appended.
C10_FetchCompletesBeforeExtraction ==
    [][ /\ delivered' # delivered =>
            /\ pc = "perform" /\ searches = 0
            /\ Len(delivered') = Len(delivered) + 1
            /\ SubSeq(delivered', 1, Len(delivered)) = delivered
            /\ Len(Last(delivered')) = cbSize' * cbNmemb'
            /\ html' = html \o Last(delivered')
            /\ cbRet' = cbSize' * cbNmemb'
        /\ pc' = "linkscan" => html' = Concat(delivered')
        /\ (pc' = "linkscan" \/ searches > 0) =>
            (html' = html /\ delivered' = delivered)
      ]_vars

C10_Witness ==
    /\ prog = "website_mapper" /\ pc = "linkscan" /\ searches > 0
    /\ delivered = <<"<A HR", "EF='y'>", "<a href=\"x\">">>
    /\ html = "<A HREF='y'><a href=\"x\">"
    /\ links = <<"y">>

====
